---- MODULE Spec2Model ----
(***************************************************************************)
(* Model of cedar-policy-validator/src/schema/entity_type.rs:              *)
(* ValidatorEntityType, its uniform query surface, its TCNode              *)
(* implementation driven by the schema-wide transitive-closure pass, and   *)
(* its conversions to and from proto::ValidatorEntityType.                 *)
(***************************************************************************)
EXTENDS Integers, Sequences, FiniteSets, TLC

\* ---------------------------------------------------------------- bounds
MaxTypes == 3
MaxEdges == 3
MaxChoices == 2
MaxWireDescendants == 2

\* ---------------------------------------------------------------- values
\* Option<T>
None == [some |-> FALSE]
Some(x) == [some |-> TRUE, val |-> x]
OptionOf(S) == {None} \cup {Some(x) : x \in S}

\* EntityType names: opaque keys, compared structurally.
TypeNames == 1..MaxTypes

\* OpenTag
OpenTags == {"OpenAttributes", "ClosedAttributes"}

\* Type / AttributeType values, opaque to the record beyond equality.
Types == {"String", "Long"}
AttributeTypes == [attr_type : Types, is_required : BOOLEAN]

\* Attributes { attrs: BTreeMap<SmolStr, AttributeType> }
EmptyAttributes == [attrs |-> <<>>]
AttributesAB ==
  [attrs |-> [a \in {"a", "b"} |->
                IF a = "a" THEN [attr_type |-> "String", is_required |-> TRUE]
                           ELSE [attr_type |-> "Long", is_required |-> FALSE]]]
AttributesA == [attrs |-> [a \in {"a"} |-> [attr_type |-> "Long", is_required |-> TRUE]]]
AttrNames == {"a", "b", "c"}
AttributesValues == {EmptyAttributes, AttributesAB, AttributesA}

\* ValidatorEntityTypeKind
Standard(attributes, open, tags) ==
  [variant |-> "Standard", attributes |-> attributes, open_attributes |-> open, tags |-> tags]
Enum(choices) == [variant |-> "Enum", choices |-> choices]

\* ValidatorEntityType
ValidatorEntityType(name, descendants, kind) ==
  [name |-> name, descendants |-> descendants, kind |-> kind]

\* ------------------------------------------------- impl ValidatorEntityType
\* Variant: a type counts as its own descendant.
has_descendant_or_self(self, ety) == ety = self.name \/ ety \in self.descendants

has_descendant_entity_type(self, ety) == ety \in self.descendants

attributes(self) ==
  IF self.kind.variant = "Enum" THEN [attrs |-> <<>>]
  ELSE [attrs |-> [a \in DOMAIN self.kind.attributes.attrs |-> self.kind.attributes.attrs[a]]]

attr(self, a) ==
  IF self.kind.variant = "Enum" THEN None
  ELSE IF a \in DOMAIN self.kind.attributes.attrs
       THEN Some(self.kind.attributes.attrs[a])
       ELSE None

\* Variant: the Enum arm answers OpenAttributes.
open_attributes_enum_open(self) ==
  IF self.kind.variant = "Enum" THEN "OpenAttributes" ELSE self.kind.open_attributes

open_attributes(self) ==
  IF self.kind.variant = "Enum" THEN "ClosedAttributes" ELSE self.kind.open_attributes

tag_type(self) ==
  IF self.kind.variant = "Enum" THEN None ELSE self.kind.tags

\* ------------------------------------- impl TCNode<EntityType> for the record
get_key(self) == self.name

\* Variants: the set is replaced instead of extended; nothing is inserted;
\* the record's own name is inserted instead of k.
add_edge_to_replace(self, k) == [self EXCEPT !.descendants = {k}]
add_edge_to_noop(self, k) == self
add_edge_to_self(self, k) == [self EXCEPT !.descendants = @ \cup {self.name}]

add_edge_to(self, k) == [self EXCEPT !.descendants = @ \cup {k}]

out_edges(self) == self.descendants

\* Variant: a record is taken to have an edge to itself.
has_edge_to_reflexive(self, e) == e = self.name \/ e \in self.descendants

has_edge_to(self, e) == e \in self.descendants

\* #[derive(Clone)] on ValidatorEntityType: a field-by-field copy.
clone(self) == [name |-> self.name, descendants |-> self.descendants, kind |-> self.kind]

\* ------------------------------------------------------------------ state
VARIABLES
  \* the schema under the closure pass
  records,   \* EntityType name -> ValidatorEntityType
  initial,   \* copy of the schema taken when the first closure pass starts
  first,     \* the schema as the first completed closure pass left it
  phase,     \* where the schema is in its life, see Phases
  \* one record under its operations and the interchange adapter
  self,      \* the record, or NoRecord
  wire,      \* the proto::ValidatorEntityType in flight, or NoWire
  sent,      \* the record `wire` was encoded from, or NoRecord
  op         \* the last operation on `self`, its arguments and its result

closureVars == <<records, initial, first, phase>>
recordVars == <<self, wire, sent, op>>
vars == <<records, initial, first, phase, self, wire, sent, op>>

\* loaded: built by the loader.  closure: first pass running.  closed: first
\* pass done.  reclosure / reclosed: a further pass over closed records.
\* rerun / reran: a further pass over a fresh copy of the initial schema.
Phases == {"loaded", "closure", "closed", "reclosure", "reclosed", "rerun", "reran"}
Running == {"closure", "reclosure", "rerun"}
Done == {"closed", "reclosed", "reran"}

NoSchema == <<>>
NoRecord == [name |-> 0, descendants |-> {}, kind |-> [variant |-> "none"]]
NoWire == [absent |-> TRUE]
NoOp == [name |-> "new"]

\* Kinds the schema loader hands over in the closure model.
LoaderStandard == Standard(AttributesAB, "OpenAttributes", None)
LoaderEnum == Enum(<<"ADMIN", "GUEST">>)

EdgeCount(recs) ==
  Cardinality({e \in (DOMAIN recs) \X (DOMAIN recs) : e[2] \in recs[e[1]].descendants})

\* Schemas as the loader builds them: unique names, direct children only,
\* every child a declared type.  Names are interchangeable: the first type is
\* the enumerated one, the others are standard.
LoadedSchemas ==
  UNION {
    { recs \in
        { [t \in 1..n |->
             ValidatorEntityType(t, d[t], IF t = 1 THEN LoaderEnum ELSE LoaderStandard)]
          : d \in [1..n -> SUBSET (1..n)] } :
        EdgeCount(recs) <= MaxEdges }
    : n \in 1..MaxTypes }

RecordIdle ==
  /\ self = NoRecord
  /\ wire = NoWire
  /\ sent = NoRecord
  /\ op = NoOp

Init ==
  /\ records \in LoadedSchemas
  /\ initial = NoSchema
  /\ first = NoSchema
  /\ phase = "loaded"
  /\ RecordIdle

\* ------------------------------------------------ the transitive-closure pass
\* Propagations still to make: a has an edge to b, b has an edge to c, and a
\* has no edge to c yet.  Read through out_edges / has_edge_to / get_key only.
Pending(recs) ==
  { p \in (DOMAIN recs) \X (DOMAIN recs) \X (DOMAIN recs) :
      /\ p[2] \in out_edges(recs[p[1]])
      /\ get_key(recs[p[2]]) = p[2]
      /\ p[3] \in out_edges(recs[p[2]])
      /\ ~has_edge_to(recs[p[1]], p[3]) }

\* compute_tc is called on the loaded schema.
StartClosure ==
  /\ phase = "loaded"
  /\ initial' = [t \in DOMAIN records |-> clone(records[t])]
  /\ phase' = "closure"
  /\ UNCHANGED <<records, first>>
  /\ UNCHANGED recordVars

\* One propagation: a.add_edge_to(c) for a pending (a, b, c).
ClosureStep ==
  /\ phase \in Running
  /\ \E p \in Pending(records) :
       records' = [records EXCEPT ![p[1]] = add_edge_to(@, p[3])]
  /\ UNCHANGED <<initial, first, phase>>
  /\ UNCHANGED recordVars

\* The pass returns: no add_edge_to call would change a descendant set.
FinishPass ==
  /\ phase \in Running
  /\ Pending(records) = {}
  /\ phase' = CASE phase = "closure" -> "closed"
                [] phase = "reclosure" -> "reclosed"
                [] phase = "rerun" -> "reran"
  /\ first' = IF phase = "closure" THEN records ELSE first
  /\ UNCHANGED <<records, initial>>
  /\ UNCHANGED recordVars

\* The closure pass is run again on the records a pass produced.
SecondPass ==
  /\ phase \in Done
  /\ phase' = "reclosure"
  /\ UNCHANGED <<records, initial, first>>
  /\ UNCHANGED recordVars

\* The closure pass is run on a fresh copy of the initial schema.
Rerun ==
  /\ phase \in Done
  /\ records' = [t \in DOMAIN initial |-> clone(initial[t])]
  /\ phase' = "rerun"
  /\ UNCHANGED <<initial, first>>
  /\ UNCHANGED recordVars

\* ------------------------------------------------- calls made by other code
\* The closure pass owns the records while it runs.
Callable == phase \notin Running

CallAddEdgeTo ==
  /\ phase = "loaded"
  /\ \E r \in DOMAIN records, k \in DOMAIN records :
       /\ has_edge_to(records[r], k) \/ EdgeCount(records) < MaxEdges
       /\ records' = [records EXCEPT ![r] = add_edge_to(@, k)]
  /\ UNCHANGED <<initial, first, phase>>
  /\ UNCHANGED recordVars

\* The queries take &self: they return a value and leave every record as it is.
CallHasDescendantEntityType ==
  /\ Callable
  /\ \E r \in DOMAIN records, k \in DOMAIN records :
       has_descendant_entity_type(records[r], k) \in BOOLEAN
  /\ UNCHANGED vars

CallAttributes ==
  /\ Callable
  /\ \E r \in DOMAIN records : attributes(records[r]) \in AttributesValues
  /\ UNCHANGED vars

CallAttr ==
  /\ Callable
  /\ \E r \in DOMAIN records, a \in AttrNames :
       attr(records[r], a) \in OptionOf(AttributeTypes)
  /\ UNCHANGED vars

CallOpenAttributes ==
  /\ Callable
  /\ \E r \in DOMAIN records : open_attributes(records[r]) \in OpenTags
  /\ UNCHANGED vars

CallTagType ==
  /\ Callable
  /\ \E r \in DOMAIN records : tag_type(records[r]) \in OptionOf(Types)
  /\ UNCHANGED vars

CallGetKey ==
  /\ Callable
  /\ \E r \in DOMAIN records : get_key(records[r]) \in TypeNames
  /\ UNCHANGED vars

CallOutEdges ==
  /\ Callable
  /\ \E r \in DOMAIN records : out_edges(records[r]) \in SUBSET TypeNames
  /\ UNCHANGED vars

CallHasEdgeTo ==
  /\ Callable
  /\ \E r \in DOMAIN records, k \in DOMAIN records :
       has_edge_to(records[r], k) \in BOOLEAN
  /\ UNCHANGED vars

Next ==
  \/ StartClosure
  \/ ClosureStep
  \/ FinishPass
  \/ SecondPass
  \/ Rerun
  \/ CallAddEdgeTo
  \/ CallHasDescendantEntityType
  \/ CallAttributes
  \/ CallAttr
  \/ CallOpenAttributes
  \/ CallTagType
  \/ CallGetKey
  \/ CallOutEdges
  \/ CallHasEdgeTo

Spec == Init /\ [][Next]_vars

\* The closure algorithm keeps running once started: it takes its next
\* propagation step while one is pending and returns when none is.
LiveSpec == Init /\ [][Next]_vars /\ WF_vars(ClosureStep) /\ WF_vars(FinishPass)

\* ------------------------------------------------------ interchange adapter
\* Conversions of the collaborating types, each an encoding with an inverse.
ProtoEntityType(n) == [proto_entity_type |-> n]
EntityTypeFromProto(p) == p.proto_entity_type

ProtoType(t) == [proto_type |-> t]
TypeFromProto(p) == p.proto_type

ProtoAttributes(a) ==
  [proto_attrs |-> [n \in DOMAIN a.attrs |->
     [attr_type |-> ProtoType(a.attrs[n].attr_type), is_required |-> a.attrs[n].is_required]]]
AttributesFromProto(p) ==
  [attrs |-> [n \in DOMAIN p.proto_attrs |->
     [attr_type |-> TypeFromProto(p.proto_attrs[n].attr_type),
      is_required |-> p.proto_attrs[n].is_required]]]

\* proto::OpenTag as the i32 the message carries, and its checked decoding.
OpenTagToI32(t) == IF t = "OpenAttributes" THEN 0 ELSE 1
OpenTagTryFromI32(i) ==
  IF i = 0 THEN Some("OpenAttributes") ELSE IF i = 1 THEN Some("ClosedAttributes") ELSE None

\* proto::Tag { optional_type }
Tag(optional_type) == [optional_type |-> optional_type]

\* The sequences listing the set S once each: the orders a HashSet iterates in.
Orders(S) ==
  { q \in [1..Cardinality(S) -> S] : \A i, j \in 1..Cardinality(S) : q[i] = q[j] => i = j }

\* Variant: the tag type is not written to the message.
ProtoTagsDropped(v) == None

\* let tags = v.tag_type().map(|tags| proto::Tag { optional_type: Some(..) })
ProtoTags(v) ==
  IF tag_type(v).some THEN Some(Tag(Some(ProtoType(tag_type(v).val)))) ELSE None

\* let enums = match &v.kind { Enum(choices) => choices..., Standard(_) => vec![] }
ProtoEnums(v) == IF v.kind.variant = "Enum" THEN v.kind.choices ELSE <<>>

\* impl From<&ValidatorEntityType> for proto::ValidatorEntityType; `order` is
\* the order v.descendants.iter() yields.
ToProto(v, order) ==
  [name |-> Some(ProtoEntityType(v.name)),
   descendants |-> [i \in DOMAIN order |-> ProtoEntityType(order[i])],
   attributes |-> Some(ProtoAttributes(attributes(v))),
   open_attributes |-> OpenTagToI32(open_attributes(v)),
   tags |-> ProtoTags(v),
   enums |-> ProtoEnums(v)]

\* Outcome of a conversion: a record, or the panic of a failed expect().
Ok(r) == [ok |-> TRUE, rec |-> r]
Panic == [ok |-> FALSE]

\* Variant: populated attributes make the payload a standard type.
IsStandardPayloadByAttributes(v) == v.enums = <<>> \/ v.attributes.some

\* match &v.enums[..] { [] => Standard, enums => Enum }
IsStandardPayload(v) == v.enums = <<>>

\* Variant: an absent attribute payload is read as no attributes
\* (unwrap_or_default in place of expect).
ExpectAttributesOrDefault(v) ==
  IF v.attributes.some THEN Some(AttributesFromProto(v.attributes.val))
  ELSE Some(EmptyAttributes)

\* Attributes::from(v.attributes.as_ref().expect(..)); None is the panic.
ExpectAttributes(v) ==
  IF v.attributes.some THEN Some(AttributesFromProto(v.attributes.val)) ELSE None

\* OpenTag::from(&proto::OpenTag::try_from(v.open_attributes).expect(..))
ExpectOpenTag(v) == OpenTagTryFromI32(v.open_attributes)

\* let tags = match &v.tags { Some(tags) => tags.optional_type.as_ref().map(Type::from), None => None }
TagsFromProto(v) ==
  IF v.tags.some /\ v.tags.val.optional_type.some
  THEN Some(TypeFromProto(v.tags.val.optional_type.val))
  ELSE None

\* impl From<&proto::ValidatorEntityType> for ValidatorEntityType
FromProto(v) ==
  IF ~v.name.some THEN Panic
  ELSE
    LET name == EntityTypeFromProto(v.name.val)
        descendants == {EntityTypeFromProto(v.descendants[i]) : i \in DOMAIN v.descendants}
    IN IF IsStandardPayload(v) THEN
         IF ~ExpectAttributes(v).some THEN Panic
         ELSE IF ~ExpectOpenTag(v).some THEN Panic
         ELSE Ok(ValidatorEntityType(name, descendants,
                   Standard(ExpectAttributes(v).val, ExpectOpenTag(v).val, TagsFromProto(v))))
       ELSE Ok(ValidatorEntityType(name, descendants, Enum(v.enums)))

\* ------------------------------------------------- one record, its operations
ChoiceNames == {"ADMIN", "GUEST"}
ChoiceLists(lo) == UNION {[1..n -> ChoiceNames] : n \in lo..MaxChoices}

Kinds ==
  {Standard(a, o, t) : a \in AttributesValues, o \in OpenTags, t \in OptionOf(Types)}
    \cup {Enum(c) : c \in ChoiceLists(1)}

\* Records as the loader builds them.
Records == {ValidatorEntityType(n, d, k) : n \in TypeNames, d \in SUBSET TypeNames, k \in Kinds}

\* Messages as a peer may send them, well-formed or not.
WireOpenTags == {0, 1, 2}
Payloads ==
  [name : OptionOf({ProtoEntityType(n) : n \in TypeNames}),
   descendants : UNION {[1..l -> {ProtoEntityType(n) : n \in TypeNames}] : l \in 0..MaxWireDescendants},
   attributes : OptionOf({ProtoAttributes(EmptyAttributes), ProtoAttributes(AttributesAB)}),
   open_attributes : WireOpenTags,
   tags : {None, Some(Tag(None)), Some(Tag(Some(ProtoType("String"))))},
   enums : ChoiceLists(0)]

\* Either the loader has built a record, or a message has arrived to decode.
RecordInit ==
  /\ records = NoSchema
  /\ initial = NoSchema
  /\ first = NoSchema
  /\ phase = "loaded"
  /\ sent = NoRecord
  /\ op = NoOp
  /\ \/ self \in Records /\ wire = NoWire
     \/ self = NoRecord /\ wire \in Payloads

Operable == self # NoRecord /\ wire = NoWire

AddEdgeTo ==
  /\ Operable
  /\ \E k \in TypeNames :
       /\ self' = add_edge_to(self, k)
       /\ op' = [name |-> "add_edge_to", k |-> k, pre |-> self]
  /\ UNCHANGED <<wire, sent>>
  /\ UNCHANGED closureVars

HasDescendantEntityType ==
  /\ Operable
  /\ \E k \in TypeNames :
       op' = [name |-> "has_descendant_entity_type", arg |-> k,
              ret |-> has_descendant_entity_type(self, k)]
  /\ UNCHANGED <<self, wire, sent>>
  /\ UNCHANGED closureVars

GetAttributes ==
  /\ Operable
  /\ op' = [name |-> "attributes", ret |-> attributes(self)]
  /\ UNCHANGED <<self, wire, sent>>
  /\ UNCHANGED closureVars

GetAttr ==
  /\ Operable
  /\ \E a \in AttrNames : op' = [name |-> "attr", arg |-> a, ret |-> attr(self, a)]
  /\ UNCHANGED <<self, wire, sent>>
  /\ UNCHANGED closureVars

GetOpenAttributes ==
  /\ Operable
  /\ op' = [name |-> "open_attributes", ret |-> open_attributes(self)]
  /\ UNCHANGED <<self, wire, sent>>
  /\ UNCHANGED closureVars

GetTagType ==
  /\ Operable
  /\ op' = [name |-> "tag_type", ret |-> tag_type(self)]
  /\ UNCHANGED <<self, wire, sent>>
  /\ UNCHANGED closureVars

GetKey ==
  /\ Operable
  /\ op' = [name |-> "get_key", ret |-> get_key(self)]
  /\ UNCHANGED <<self, wire, sent>>
  /\ UNCHANGED closureVars

OutEdges ==
  /\ Operable
  /\ op' = [name |-> "out_edges", ret |-> out_edges(self)]
  /\ UNCHANGED <<self, wire, sent>>
  /\ UNCHANGED closureVars

HasEdgeTo ==
  /\ Operable
  /\ \E k \in TypeNames :
       op' = [name |-> "has_edge_to", arg |-> k, ret |-> has_edge_to(self, k)]
  /\ UNCHANGED <<self, wire, sent>>
  /\ UNCHANGED closureVars

\* proto::ValidatorEntityType::from(&self)
Encode ==
  /\ Operable
  /\ \E order \in Orders(self.descendants) : wire' = ToProto(self, order)
  /\ sent' = self
  /\ op' = [name |-> "encode"]
  /\ UNCHANGED self
  /\ UNCHANGED closureVars

\* ValidatorEntityType::from(&wire): the record it yields replaces `self`; a
\* panic aborts the conversion and yields no record.
Decode ==
  /\ wire # NoWire
  /\ op' = [name |-> "decode", arg |-> wire, sent |-> sent, pre |-> self, ret |-> FromProto(wire)]
  /\ self' = IF FromProto(wire).ok THEN FromProto(wire).rec ELSE self
  /\ wire' = NoWire
  /\ sent' = NoRecord
  /\ UNCHANGED closureVars

RecordNext ==
  \/ AddEdgeTo
  \/ HasDescendantEntityType
  \/ GetAttributes
  \/ GetAttr
  \/ GetOpenAttributes
  \/ GetTagType
  \/ GetKey
  \/ OutEdges
  \/ HasEdgeTo
  \/ Encode
  \/ Decode

RecordSpec == RecordInit /\ [][RecordNext]_vars

\* ------------------------------------------------------ reachability (reference)
Descendants(recs) == [t \in DOMAIN recs |-> recs[t].descendants]

\* Types reachable from a by a path of 1..k direct-child edges of recs.
RECURSIVE ReachWithin(_, _, _)
ReachWithin(recs, a, k) ==
  IF k <= 1 THEN recs[a].descendants
  ELSE LET R == ReachWithin(recs, a, k - 1)
       IN R \cup UNION {recs[b].descendants : b \in R \cap DOMAIN recs}

\* Types reachable from a by a path of one or more direct-child edges.
Reachable(recs, a) == ReachWithin(recs, a, Cardinality(DOMAIN recs))

\* No add_edge_to call of the closure pass would change a descendant set.
FixedPoint(recs) ==
  \A a \in DOMAIN recs : \A b \in recs[a].descendants \cap DOMAIN recs :
    recs[b].descendants \subseteq recs[a].descendants

\* ------------------------------------------------------------------ claims

\* C1. Closure transitivity: once a closure pass has returned, for all records
\* A, B, C such that B is reachable from A and C is reachable from B through
\* the direct-child edges held before the pass, C is in A's descendant set.
ClosureTransitivity ==
  phase \in Done =>
    \A a \in DOMAIN records : \A b \in Reachable(initial, a) :
      \A c \in Reachable(initial, b) : c \in records[a].descendants

\* A pass has returned on a schema with a -> b -> c and no direct edge a -> c.
ClosureTransitivityWitness ==
  /\ phase \in Done
  /\ \E a, b, c \in DOMAIN records :
       /\ a # b /\ b # c /\ a # c
       /\ b \in initial[a].descendants
       /\ c \in initial[b].descendants
       /\ c \notin initial[a].descendants
       /\ c \in records[a].descendants

\* C2. After a closure pass has returned, has_descendant_entity_type on record
\* A with argument B is true exactly when B is reachable from A by one or more
\* pre-closure direct-child edges; the pass adds nothing unreachable.
ClosureExact ==
  phase \in Done =>
    \A a \in DOMAIN records : \A b \in TypeNames :
      has_descendant_entity_type(records[a], b) <=> b \in Reachable(initial, a)

\* The Group / User schema: Group's descendants start as {User}, User's start
\* empty; after closure Group has descendant User and User has not Group.
ClosureExactWitness ==
  /\ phase = "closed"
  /\ \E group, user \in DOMAIN records :
       /\ group # user
       /\ DOMAIN records = {group, user}
       /\ initial[group].descendants = {user}
       /\ initial[user].descendants = {}
       /\ has_descendant_entity_type(records[group], user)
       /\ ~has_descendant_entity_type(records[user], group)

\* C3. Closure monotonicity: no step of the closure pass and no record
\* operation removes an element from any record's descendant set (the one step
\* that swaps in a fresh copy of the initial schema for another run is not an
\* operation on the records), and after a pass every record's descendant set
\* contains the set it had before the pass.
ClosureMonotonicity ==
  /\ [](phase # "loaded" =>
          \A t \in DOMAIN records : initial[t].descendants \subseteq records[t].descendants)
  /\ [][~(phase \in Done /\ phase' = "rerun") =>
          \A t \in DOMAIN records : records[t].descendants \subseteq records'[t].descendants]_vars

\* A pass has returned after growing some record's descendant set.
ClosureMonotonicityWitness ==
  /\ phase = "closed"
  /\ \E t \in DOMAIN records :
       /\ initial[t].descendants # {}
       /\ initial[t].descendants # records[t].descendants

\* C4. Closure termination: every closure pass, on cyclic and self-referential
\* graphs too, eventually returns with the schema at a fixed point.
ClosureTermination ==
  (phase \in Running) ~> (phase \in Done /\ FixedPoint(records))

\* A pass has returned on a schema whose direct edges contain a cycle and a
\* self-loop, after at least one propagation.
ClosureTerminationWitness ==
  /\ phase = "closed"
  /\ FixedPoint(records)
  /\ Descendants(records) # Descendants(initial)
  /\ \E a, b \in DOMAIN records :
       /\ a # b
       /\ b \in initial[a].descendants
       /\ a \in initial[b].descendants
       /\ b \in initial[b].descendants

\* C5. Closure idempotence: a further pass over records a pass produced changes
\* no descendant set, at any of its steps; and a pass over a fresh copy of the
\* initial schema ends with the descendant sets the first pass ended with,
\* whatever order the propagations are made in.
ClosureIdempotence ==
  phase \in {"reclosure", "reclosed", "reran"} =>
    Descendants(records) = Descendants(first)

\* A second run has returned on a schema the closure had to extend in two
\* records (so that the propagation order was a choice).
ClosureIdempotenceWitness ==
  /\ phase = "reran"
  /\ \E t, u \in DOMAIN records :
       /\ t # u
       /\ initial[t].descendants # records[t].descendants
       /\ initial[u].descendants # records[u].descendants

\* C6. Kind isolation: for every Enum record, however it was obtained,
\* attributes() is the empty mapping, attr(name) is absent for every name,
\* open_attributes() is Closed and tag_type() is absent; the results the
\* queries returned say the same.
KindIsolation ==
  (self # NoRecord /\ self.kind.variant = "Enum") =>
    /\ attributes(self) = EmptyAttributes
    /\ \A a \in AttrNames : attr(self, a) = None
    /\ open_attributes(self) = "ClosedAttributes"
    /\ tag_type(self) = None
    /\ op.name = "attributes" => op.ret.attrs = <<>>
    /\ op.name \in {"attr", "tag_type"} => op.ret = None
    /\ op.name = "open_attributes" => op.ret = "ClosedAttributes"

\* An Enum record decoded from a payload whose attribute, openness and tag
\* fields were all populated.
KindIsolationWitness ==
  /\ self # NoRecord
  /\ self.kind.variant = "Enum"
  /\ op.name = "decode"
  /\ op.arg.attributes = Some(ProtoAttributes(AttributesAB))
  /\ op.arg.open_attributes = OpenTagToI32("OpenAttributes")
  /\ op.arg.tags = Some(Tag(Some(ProtoType("String"))))

\* C7. Discriminator precedence: the emptiness of the choice list alone decides
\* the kind of a decoded record.  A payload with a non-empty choice list (and a
\* name) decodes as an Enum record with exactly those choices in that order,
\* whatever its attribute, openness and tag fields hold; a payload with an
\* empty choice list never decodes as Enum: what it yields is a Standard record.
DiscriminatorPrecedence ==
  op.name = "decode" =>
    /\ (op.arg.enums # <<>> /\ op.arg.name.some) =>
         /\ op.ret.ok
         /\ op.ret.rec.kind = Enum(op.arg.enums)
         /\ self = op.ret.rec
    /\ (op.arg.enums = <<>> /\ op.ret.ok) => op.ret.rec.kind.variant = "Standard"
    /\ (op.arg.enums = <<>> /\ op.arg.name.some /\ op.arg.attributes.some
          /\ ExpectOpenTag(op.arg).some) =>
         /\ op.ret.ok
         /\ op.ret.rec.kind.variant = "Standard"

\* A crafted payload with two choices and populated attributes decoded as Enum,
\* the choices kept in order.
DiscriminatorPrecedenceWitness ==
  /\ op.name = "decode"
  /\ op.sent = NoRecord
  /\ op.arg.enums = <<"GUEST", "ADMIN">>
  /\ op.arg.attributes = Some(ProtoAttributes(AttributesAB))
  /\ op.arg.tags.some
  /\ op.ret.ok
  /\ op.ret.rec.kind = Enum(<<"GUEST", "ADMIN">>)

\* C8. Interchange round-trip: decoding the encoding of a record R succeeds and
\* yields a record equal to R in name, descendants and kind (attributes,
\* openness, tag type, or the ordered choices); the encoding of a Standard
\* record has an empty choice list, that of an Enum record a non-empty one.
InterchangeRoundTrip ==
  /\ (wire # NoWire /\ sent # NoRecord) =>
       /\ sent.kind.variant = "Standard" => wire.enums = <<>>
       /\ sent.kind.variant = "Enum" => wire.enums # <<>>
  /\ (op.name = "decode" /\ op.sent # NoRecord) =>
       /\ op.ret.ok
       /\ op.ret.rec.name = op.sent.name
       /\ op.ret.rec.descendants = op.sent.descendants
       /\ op.ret.rec.kind = op.sent.kind
       /\ self = op.sent

\* The record of the example, {a: String required, b: Long optional}, open,
\* no tags, with two descendants, came back from the round trip.
InterchangeRoundTripWitness ==
  /\ op.name = "decode"
  /\ op.sent # NoRecord
  /\ op.sent.kind = Standard(AttributesAB, "OpenAttributes", None)
  /\ Cardinality(op.sent.descendants) = 2
  /\ self = op.sent

\* C9. Malformed-payload failure: decoding panics and yields no record when the
\* name is absent, or when the choice list is empty and the attribute payload
\* is absent; no default stands in for the missing field.  An absent attribute
\* payload is no failure when the choice list is non-empty.
MalformedPayloadFails ==
  op.name = "decode" =>
    /\ ~op.arg.name.some => (op.ret = Panic /\ self = op.pre)
    /\ (op.arg.enums = <<>> /\ ~op.arg.attributes.some) => (op.ret = Panic /\ self = op.pre)
    /\ (op.arg.enums # <<>> /\ op.arg.name.some /\ ~op.arg.attributes.some) => op.ret.ok

\* A payload with a name, no choices and no attribute payload was refused.
MalformedPayloadFailsWitness ==
  /\ op.name = "decode"
  /\ op.arg.name.some
  /\ op.arg.enums = <<>>
  /\ ~op.arg.attributes.some
  /\ op.ret = Panic
  /\ self = NoRecord

\* C10. Exact effect of add_edge_to: after add_edge_to(k) the record's
\* descendant set is its previous set with k added, its name and kind are
\* unchanged; if has_edge_to(k) held before, the whole record is unchanged; and
\* has_edge_to(k), has_descendant_entity_type(k) and k in out_edges() hold.
AddEdgeToEffect ==
  op.name = "add_edge_to" =>
    LET r == self IN
      /\ r.descendants = op.pre.descendants \cup {op.k}
      /\ get_key(r) = get_key(op.pre)
      /\ r.kind = op.pre.kind
      /\ has_edge_to(op.pre, op.k) => r = op.pre
      /\ has_edge_to(r, op.k)
      /\ has_descendant_entity_type(r, op.k)
      /\ op.k \in out_edges(r)

\* add_edge_to was called with a key the record already held.
AddEdgeToEffectWitness ==
  /\ op.name = "add_edge_to"
  /\ has_edge_to(op.pre, op.k)
  /\ op.pre.descendants # {op.k}

====
